---------------------------- MODULE Spec2Model ----------------------------
(***************************************************************************)
(* Playing cards as used in Poker (src/src/lib.rs): the Suit, Rank and     *)
(* Card value types, their parsers (TryFrom<&str>) and their comparisons.  *)
(*                                                                         *)
(* A &str is a sequence of characters; every character has a UTF-8 width   *)
(* (len_utf8), and the length of a string, str_len, is its length in       *)
(* bytes, as Rust's str::len is.  A String built by format! is the         *)
(* concatenation of the literal text and the formatted argument.           *)
(***************************************************************************)
EXTENDS Integers, Sequences, FiniteSets, TLC

VARIABLES
    s,      \* the text handed to a parser
    x, y,   \* the two ranks handed to a Rank comparison
    a, b,   \* the two cards handed to a Card comparison
    op,     \* "idle", or the operation that has been applied
    res     \* what the operation returned

vars == <<s, x, y, a, b, op, res>>

---------------------------------------------------------------------------
(* Characters and strings *)

Digits == <<"0", "1", "2", "3", "4", "5", "6", "7", "8", "9">>

\* One-byte characters: the rank codes, the digits, the suit codes, and two
\* characters that are in no code ("X", and the lowercase "c").
Ascii ==
    {"A", "K", "Q", "J", "T"} \cup {Digits[i] : i \in 1..10}
        \cup {"C", "H", "D", "S"} \cup {"X", "c"}

\* U+00E9 (two bytes in UTF-8) and U+20AC (three bytes).
NonAscii == {"U+00E9", "U+20AC"}

Chars == Ascii \cup NonAscii

len_utf8(c) ==
    IF c \in Ascii THEN 1 ELSE IF c = "U+00E9" THEN 2 ELSE 3

RECURSIVE str_len(_)
str_len(t) ==
    IF t = <<>> THEN 0 ELSE len_utf8(Head(t)) + str_len(Tail(t))

\* str::is_char_boundary: the byte offset mid falls between two characters.
is_char_boundary(t, mid) ==
    \E k \in 0..Len(t) : str_len(SubSeq(t, 1, k)) = mid

\* str::split_at, for an offset that is a character boundary.
split_at(t, mid) ==
    LET k == CHOOSE k \in 0..Len(t) : str_len(SubSeq(t, 1, k)) = mid
    IN  <<SubSeq(t, 1, k), SubSeq(t, k + 1, Len(t))>>

\* char::to_digit(c, 10): the digit's value, or -1 for None.
to_digit(c) ==
    IF \E i \in 1..10 : Digits[i] = c
    THEN (CHOOSE i \in 1..10 : Digits[i] = c) - 1
    ELSE -1

U8 == 256

---------------------------------------------------------------------------
(* Results *)

Ok(v)   == [tag |-> "Ok", val |-> v]
Err(m)  == [tag |-> "Err", msg |-> m]
Panic   == [tag |-> "Panic"]
Pending == [tag |-> "Pending"]

Some(o) == [tag |-> "Some", val |-> o]
None    == [tag |-> "None"]

\* u8's Ord::cmp.
int_cmp(m, n) ==
    IF m < n THEN "Less" ELSE IF m = n THEN "Equal" ELSE "Greater"

---------------------------------------------------------------------------
(* Suit *)

Clubs    == "Clubs"
Hearts   == "Hearts"
Diamonds == "Diamonds"
Spades   == "Spades"

Suit_default == Spades

MsgSuitInvalid ==
    <<"i", "n", "v", "a", "l", "i", "d", " ", "r", "a", "n", "k", ":", " ">>

Suit_try_from(t) ==
    IF t = <<"C">> THEN Ok(Clubs)
    ELSE IF t = <<"H">> THEN Ok(Hearts)
    ELSE IF t = <<"D">> THEN Ok(Diamonds)
    ELSE IF t = <<"S">> THEN Ok(Spades)
    ELSE Err(MsgSuitInvalid \o t)

---------------------------------------------------------------------------
(* Rank *)

Ace     == [kind |-> "Ace"]
King    == [kind |-> "King"]
Queen   == [kind |-> "Queen"]
Jack    == [kind |-> "Jack"]
Ten     == [kind |-> "Ten"]
Spot(n) == [kind |-> "Spot", n |-> n]

Rank_default == Ace

\* Mutant: the Ace projected as the lowest strength instead of the highest.
u8_from_AceLow(r) ==
    IF r = Ace THEN 1
    ELSE IF r = King THEN 13
    ELSE IF r = Queen THEN 12
    ELSE IF r = Jack THEN 11
    ELSE IF r = Ten THEN 10
    ELSE r.n

u8_from(r) ==
    IF r = Ace THEN 14
    ELSE IF r = King THEN 13
    ELSE IF r = Queen THEN 12
    ELSE IF r = Jack THEN 11
    ELSE IF r = Ten THEN 10
    ELSE r.n

MsgRankEmpty ==
    <<"e", "m", "p", "t", "y", " ", "r", "a", "n", "k">>

MsgRankOverlong ==
    <<"o", "v", "e", "r", "l", "o", "n", "g", " ", "r", "a", "n", "k", ":", " ">>

MsgRankInvalid ==
    <<"i", "n", "v", "a", "l", "i", "d", " ", "r", "a", "n", "k", " ">>

\* Mutant: the overlong check counting characters instead of bytes.
Rank_try_from_CharCount(t) ==
    IF t = <<"A">> THEN Ok(Ace)
    ELSE IF t = <<"K">> THEN Ok(King)
    ELSE IF t = <<"Q">> THEN Ok(Queen)
    ELSE IF t = <<"J">> THEN Ok(Jack)
    ELSE IF t = <<"T">> THEN Ok(Ten)
    ELSE IF t = <<>> THEN Err(MsgRankEmpty)
    ELSE IF t = <<"1", "0">> THEN Ok(Ten)
    ELSE IF Len(t) >= 2 THEN Err(MsgRankOverlong \o t)
    ELSE LET d == to_digit(Head(t))
         IN  IF d # -1 /\ d >= 2
             THEN Ok(Spot(d % U8))
             ELSE Err(MsgRankInvalid \o t)

\* Mutant: "10" parsed as a Spot with payload 10 instead of Ten.
Rank_try_from_SpotTen(t) ==
    IF t = <<"A">> THEN Ok(Ace)
    ELSE IF t = <<"K">> THEN Ok(King)
    ELSE IF t = <<"Q">> THEN Ok(Queen)
    ELSE IF t = <<"J">> THEN Ok(Jack)
    ELSE IF t = <<"T">> THEN Ok(Ten)
    ELSE IF t = <<>> THEN Err(MsgRankEmpty)
    ELSE IF t = <<"1", "0">> THEN Ok(Spot(10))
    ELSE IF str_len(t) >= 2 THEN Err(MsgRankOverlong \o t)
    ELSE LET d == to_digit(Head(t))
         IN  IF d # -1 /\ d >= 2
             THEN Ok(Spot(d % U8))
             ELSE Err(MsgRankInvalid \o t)

Rank_try_from(t) ==
    IF t = <<"A">> THEN Ok(Ace)
    ELSE IF t = <<"K">> THEN Ok(King)
    ELSE IF t = <<"Q">> THEN Ok(Queen)
    ELSE IF t = <<"J">> THEN Ok(Jack)
    ELSE IF t = <<"T">> THEN Ok(Ten)
    ELSE IF t = <<>> THEN Err(MsgRankEmpty)
    ELSE IF t = <<"1", "0">> THEN Ok(Ten)
    ELSE IF str_len(t) >= 2 THEN Err(MsgRankOverlong \o t)
    ELSE LET d == to_digit(Head(t))
         IN  IF d # -1 /\ d >= 2
             THEN Ok(Spot(d % U8))
             ELSE Err(MsgRankInvalid \o t)

\* Mutant: the arm for an Ace on the right-hand side left out.
Rank_partial_cmp_NoRightAce(r1, r2) ==
    IF r1 = Ace /\ r2 = Ace THEN Some("Equal")
    ELSE IF r1 = Ace THEN None
    ELSE Some(int_cmp(u8_from(r1), u8_from(r2)))

Rank_partial_cmp(r1, r2) ==
    IF r1 = Ace /\ r2 = Ace THEN Some("Equal")
    ELSE IF r1 = Ace THEN None
    ELSE IF r2 = Ace THEN None
    ELSE Some(int_cmp(u8_from(r1), u8_from(r2)))

\* Mutant: the operands compared the wrong way round.
Rank_cmp_Reversed(r1, r2) == int_cmp(u8_from(r2), u8_from(r1))

Rank_cmp(r1, r2) == int_cmp(u8_from(r1), u8_from(r2))

---------------------------------------------------------------------------
(* Card *)

MinCardLen == 2
MaxCardLen == 3

Card(r, u) == [rank |-> r, suit |-> u]

Card_default == Card(Rank_default, Suit_default)

MsgCardLength ==
    <<"i", "n", "v", "a", "l", "i", "d", " ", "c", "a", "r", "d", " ",
      "d", "e", "s", "c", "r", "i", "p", "t", "i", "o", "n", " ",
      "l", "e", "n", "g", "t", "h", ":", " ">>

Card_try_from(t) ==
    LET ns == str_len(t)
    IN  IF ns < MinCardLen \/ ns > MaxCardLen
        THEN Err(MsgCardLength \o t)
        ELSE IF ~is_char_boundary(t, ns - 1)
        THEN Panic
        ELSE LET parts == split_at(t, ns - 1)
                 rank  == Rank_try_from(parts[1])
                 suit  == Suit_try_from(parts[2])
             IN  IF rank.tag = "Err" THEN rank
                 ELSE IF suit.tag = "Err" THEN suit
                 ELSE Ok(Card(rank.val, suit.val))

Card_eq(c1, c2) == c1.rank = c2.rank /\ c1.suit = c2.suit

Card_partial_cmp(c1, c2) == Rank_partial_cmp(c1.rank, c2.rank)

\* Mutant: cards of equal rank ordered by whether their suits differ.
Card_cmp_SuitTiebreak(c1, c2) ==
    IF Rank_cmp(c1.rank, c2.rank) = "Equal" /\ c1.suit # c2.suit
    THEN "Less"
    ELSE Rank_cmp(c1.rank, c2.rank)

Card_cmp(c1, c2) == Rank_cmp(c1.rank, c2.rank)

---------------------------------------------------------------------------
(* The texts a caller hands to a parser: every string of at most MaxCardLen *)
(* characters, and the strings of MaxCardLen characters followed by up to  *)
(* MaxExtra more.                                                          *)

MaxExtra == 2

Pad == {"S", "U+00E9"}

Inputs ==
    UNION {[1..k -> Chars] : k \in 0..MaxCardLen}
        \cup {t \o p : t \in [1..MaxCardLen -> Chars],
                       p \in UNION {[1..k -> Pad] : k \in 1..MaxExtra}}

\* The values the parsers return, and the values a caller holds.
ParsedRanks ==
    {Rank_try_from(t).val : t \in {u \in Inputs : Rank_try_from(u).tag = "Ok"}}

ParsedCards ==
    {Card_try_from(t).val : t \in {u \in Inputs : Card_try_from(u).tag = "Ok"}}

Ranks == ParsedRanks \cup {Rank_default}

Cards == ParsedCards \cup {Card_default}

---------------------------------------------------------------------------
(* Parsing: a text is given, and one of the parsers is applied to it.      *)

Init ==
    /\ s \in Inputs
    /\ x = Rank_default /\ y = Rank_default
    /\ a = Card_default /\ b = Card_default
    /\ op = "idle"
    /\ res = Pending

ParseSuit ==
    /\ op = "idle"
    /\ op' = "Suit::try_from"
    /\ res' = Suit_try_from(s)
    /\ UNCHANGED <<s, x, y, a, b>>

ParseRank ==
    /\ op = "idle"
    /\ op' = "Rank::try_from"
    /\ res' = Rank_try_from(s)
    /\ UNCHANGED <<s, x, y, a, b>>

ParseCard ==
    /\ op = "idle"
    /\ op' = "Card::try_from"
    /\ res' = Card_try_from(s)
    /\ UNCHANGED <<s, x, y, a, b>>

Next == ParseSuit \/ ParseRank \/ ParseCard

Spec == Init /\ [][Next]_vars

---------------------------------------------------------------------------
(* Comparing ranks: two ranks are given, and a comparison is applied.      *)

InitRank ==
    /\ s = <<>>
    /\ x \in Ranks /\ y \in Ranks
    /\ a = Card_default /\ b = Card_default
    /\ op = "idle"
    /\ res = Pending

RankPartialCmp ==
    /\ op = "idle"
    /\ op' = "Rank::partial_cmp"
    /\ res' = Rank_partial_cmp(x, y)
    /\ UNCHANGED <<s, x, y, a, b>>

RankCmp ==
    /\ op = "idle"
    /\ op' = "Rank::cmp"
    /\ res' = Rank_cmp(x, y)
    /\ UNCHANGED <<s, x, y, a, b>>

NextRank == RankPartialCmp \/ RankCmp

SpecRank == InitRank /\ [][NextRank]_vars

---------------------------------------------------------------------------
(* Comparing cards: two cards are given, and a comparison is applied.      *)

InitCard ==
    /\ s = <<>>
    /\ x = Rank_default /\ y = Rank_default
    /\ a \in Cards /\ b \in Cards
    /\ op = "idle"
    /\ res = Pending

CardEq ==
    /\ op = "idle"
    /\ op' = "Card::eq"
    /\ res' = Card_eq(a, b)
    /\ UNCHANGED <<s, x, y, a, b>>

CardPartialCmp ==
    /\ op = "idle"
    /\ op' = "Card::partial_cmp"
    /\ res' = Card_partial_cmp(a, b)
    /\ UNCHANGED <<s, x, y, a, b>>

CardCmp ==
    /\ op = "idle"
    /\ op' = "Card::cmp"
    /\ res' = Card_cmp(a, b)
    /\ UNCHANGED <<s, x, y, a, b>>

NextCard == CardEq \/ CardPartialCmp \/ CardCmp

SpecCard == InitCard /\ [][NextCard]_vars

---------------------------------------------------------------------------
(* Notation of the textual codes, used to state the properties below.      *)

RankCodes ==
    {<<"A">>, <<"K">>, <<"Q">>, <<"J">>, <<"T">>, <<"1", "0">>}
        \cup {<<Digits[n + 1]>> : n \in 2..9}

SuitCodes == {<<"C">>, <<"H">>, <<"D">>, <<"S">>}

Suits == {Clubs, Hearts, Diamonds, Spades}

\* The strength table of the data model: Ace 14, King 13, Queen 12, Jack 11,
\* Ten 10, Spot(n) n.
Strength(r) ==
    CASE r.kind = "Ace"   -> 14
      [] r.kind = "King"  -> 13
      [] r.kind = "Queen" -> 12
      [] r.kind = "Jack"  -> 11
      [] r.kind = "Ten"   -> 10
      [] r.kind = "Spot"  -> r.n

AllButLast(t) == SubSeq(t, 1, Len(t) - 1)

LastChar(t) == SubSeq(t, Len(t), Len(t))

HasPrefix(t, p) == Len(t) >= Len(p) /\ SubSeq(t, 1, Len(p)) = p

HasSuffix(t, p) ==
    Len(t) >= Len(p) /\ SubSeq(t, Len(t) - Len(p) + 1, Len(t)) = p

Mentions(t, w) ==
    \E i \in 1..Len(t) :
        i + Len(w) - 1 <= Len(t) /\ SubSeq(t, i, i + Len(w) - 1) = w

ExactlyOneAce(r1, r2) == (r1 = Ace) # (r2 = Ace)

---------------------------------------------------------------------------
(* C1 *)

\* C1: Rank partial comparison obeys the Ace law: Ace against Ace is Equal,
\* Ace against any other rank (either way round) is None, and two non-Ace
\* ranks compare as Some of the integer comparison of their projections.
C1_PartialCmpAceLaw ==
    op = "Rank::partial_cmp" =>
        IF x = Ace /\ y = Ace THEN res = Some("Equal")
        ELSE IF x = Ace \/ y = Ace THEN res = None
        ELSE res = Some(int_cmp(Strength(x), Strength(y)))

C1_Witness ==
    op = "Rank::partial_cmp" /\ x # Ace /\ y = Ace /\ res = None

---------------------------------------------------------------------------
(* C2 *)

---------------------------------------------------------------------------
(* C3 *)

\* The outcome of the classification, by the rank codes first and then by
\* the length n of the text.
C3_Classify(t, n) ==
    IF t = <<"A">> THEN Ok(Ace)
    ELSE IF t = <<"K">> THEN Ok(King)
    ELSE IF t = <<"Q">> THEN Ok(Queen)
    ELSE IF t = <<"J">> THEN Ok(Jack)
    ELSE IF t = <<"T">> \/ t = <<"1", "0">> THEN Ok(Ten)
    ELSE IF \E d \in 2..9 : t = <<Digits[d + 1]>>
    THEN Ok(Spot(CHOOSE d \in 2..9 : t = <<Digits[d + 1]>>))
    ELSE IF n = 0 THEN Err(MsgRankEmpty)
    ELSE IF n >= 2 THEN Err(MsgRankOverlong \o t)
    ELSE Err(MsgRankInvalid \o t)

\* C3, as stated: Rank parsing is total and gives every text exactly one
\* outcome: the rank of a rank code; EmptyRank for the empty text;
\* OverlongRank for every text of two or more characters other than "10";
\* InvalidRank for every other single character, "0" and "1" included.
C3_Original ==
    op = "Rank::try_from" =>
        /\ res.tag \in {"Ok", "Err"}
        /\ res = C3_Classify(s, Len(s))

\* C3, amended: the same classification with the length of a text taken in
\* bytes: OverlongRank for every text of two or more bytes other than "10",
\* a single non-ASCII character included, and InvalidRank for every other
\* text of one byte.
C3_RankParseClassifies ==
    op = "Rank::try_from" =>
        /\ res.tag \in {"Ok", "Err"}
        /\ res = C3_Classify(s, str_len(s))

C3_Witness ==
    /\ op = "Rank::try_from"
    /\ s = <<"U+00E9">>
    /\ res = Err(MsgRankOverlong \o <<"U+00E9">>)

---------------------------------------------------------------------------
(* C4 *)

\* C4: Card parsing never terminates the process: for every text, texts with
\* non-ASCII characters of 2 or 3 bytes included, it returns a Card or an
\* error value, the split into rank and suit substrings being well defined.
C4_CardParseNeverPanics ==
    op = "Card::try_from" => res.tag \in {"Ok", "Err"}

---------------------------------------------------------------------------
(* C5 *)

\* C5: Card parsing succeeds exactly on a rank code followed by a suit code,
\* and returns the rank of all characters but the last with the suit of the
\* last character; the successful texts of 3 characters are "10" and a suit
\* code; "10D" is (Ten, Diamonds), "9H" is (Spot(9), Hearts); every text of
\* 0, 1, or 4 and more characters fails with InvalidCardLength.
C5_CardParseSucceedsExactly ==
    op = "Card::try_from" =>
        /\ res.tag = "Ok" <=>
               \E rc \in RankCodes, sc \in SuitCodes : s = rc \o sc
        /\ res.tag = "Ok" =>
               res.val = Card(Rank_try_from(AllButLast(s)).val,
                              Suit_try_from(LastChar(s)).val)
        /\ res.tag = "Ok" /\ Len(s) = 3 =>
               AllButLast(s) = <<"1", "0">> /\ LastChar(s) \in SuitCodes
        /\ s = <<"1", "0", "D">> => res = Ok(Card(Ten, Diamonds))
        /\ s = <<"9", "H">> => res = Ok(Card(Spot(9), Hearts))
        /\ Len(s) \in {0, 1} \/ Len(s) >= 4 =>
               res = Err(MsgCardLength \o s)

---------------------------------------------------------------------------
(* C6 *)

\* C6: Card parsing forwards errors unchanged in a fixed precedence: the
\* length error first; otherwise the error of Rank parsing of the rank
\* substring, whatever the suit character; otherwise the error of Suit
\* parsing of the last character; otherwise a Card.
C6_CardParseForwardsErrors ==
    op = "Card::try_from" =>
        IF str_len(s) < MinCardLen \/ str_len(s) > MaxCardLen
        THEN res = Err(MsgCardLength \o s)
        ELSE LET rank == Rank_try_from(AllButLast(s))
                 suit == Suit_try_from(LastChar(s))
             IN  IF rank.tag = "Err" THEN res = rank
                 ELSE IF suit.tag = "Err" THEN res = suit
                 ELSE res = Ok(Card(rank.val, suit.val))

---------------------------------------------------------------------------
(* C7 *)

\* C7: Suit parsing accepts exactly "C", "H", "D" and "S"; every other text
\* fails with an error whose message names the suit stage, is no message of
\* Rank parsing, and echoes the text.
C7_SuitErrorNamesSuit ==
    op = "Suit::try_from" =>
        /\ s = <<"C">> => res = Ok(Clubs)
        /\ s = <<"H">> => res = Ok(Hearts)
        /\ s = <<"D">> => res = Ok(Diamonds)
        /\ s = <<"S">> => res = Ok(Spades)
        /\ s \notin SuitCodes =>
               /\ res.tag = "Err"
               /\ Mentions(res.msg, <<"s", "u", "i", "t">>)
               /\ ~Mentions(res.msg, <<"r", "a", "n", "k">>)
               /\ HasSuffix(res.msg, s)

---------------------------------------------------------------------------
(* C8 *)

\* C8: Card comparison never consults the suit and Card equality does: cmp
\* and partial_cmp of two cards are those of their ranks, and stay the same
\* whatever suits the two cards are given; two cards are equal exactly when
\* their ranks and their suits are.
C8_CardOrderIgnoresSuit ==
    /\ op = "Card::cmp" =>
           /\ res = Rank_cmp(a.rank, b.rank)
           /\ \A u, v \in Suits :
                  Card_cmp(Card(a.rank, u), Card(b.rank, v)) = res
    /\ op = "Card::partial_cmp" =>
           /\ res = Rank_partial_cmp(a.rank, b.rank)
           /\ \A u, v \in Suits :
                  Card_partial_cmp(Card(a.rank, u), Card(b.rank, v)) = res
    /\ op = "Card::eq" =>
           (res <=> (a.rank = b.rank /\ a.suit = b.suit))

C8_Witness ==
    /\ op = "Card::cmp"
    /\ a.rank = b.rank /\ a.suit # b.suit
    /\ res = "Equal"

---------------------------------------------------------------------------
(* C9 *)

---------------------------------------------------------------------------
(* C10 *)

\* The projection expected of each rank code.
C10_Projection(t) ==
    IF t = <<"A">> THEN 14
    ELSE IF t = <<"K">> THEN 13
    ELSE IF t = <<"Q">> THEN 12
    ELSE IF t = <<"J">> THEN 11
    ELSE IF t = <<"T">> \/ t = <<"1", "0">> THEN 10
    ELSE CHOOSE n \in 2..9 : t = <<Digits[n + 1]>>

\* C10: parsing a rank code and projecting gives 14, 13, 12, 11, 10, 10 and
\* 2..9 for A, K, Q, J, T, 10 and 2..9; every rank a parse returns has a
\* Spot payload in 2..9 and a projection in 2..14; and two parsed ranks with
\* the same projection are the same rank.
C10_ParseThenProject ==
    op = "Rank::try_from" =>
        /\ s \in RankCodes =>
               res.tag = "Ok" /\ u8_from(res.val) = C10_Projection(s)
        /\ res.tag = "Ok" =>
               /\ res.val.kind = "Spot" => res.val.n \in 2..9
               /\ u8_from(res.val) \in 2..14
               /\ \A r \in ParsedRanks :
                      u8_from(r) = u8_from(res.val) => r = res.val

C10_Witness ==
    /\ op = "Rank::try_from"
    /\ s = <<"1", "0">>
    /\ res = Ok(Ten)
    /\ u8_from(res.val) = 10

=============================================================================
